---- MODULE Spec2Model ----
(***************************************************************************)
(* Model of the Pyrus API python client (src/pyrus/client.py and           *)
(* src/pyrus/models/responses.py): the credential state of one PyrusAPI    *)
(* instance, the authentication round trip, the request pipeline with its  *)
(* 401-triggered re-authentication, and the per-operation response         *)
(* wrappers.  The server and the transport are the environment: every      *)
(* round trip is answered by a nondeterministically chosen reply or by a   *)
(* transport failure.                                                      *)
(***************************************************************************)
EXTENDS Integers, Sequences, FiniteSets, TLC

VARIABLES login, security_key, access_token, proxy, calls

vars == <<login, security_key, access_token, proxy, calls>>

--------------------------------------------------------------------------
(* Values *)

\* Python None, for string-valued attributes.
NULL == "None"

\* A header that is not part of a request.
NoHeader == "<absent>"

\* The empty dict {}.
EmptyDict == [k \in {} |-> NULL]

\* The callers that may use the client instance.
Threads == {"t1", "t2"}

\* dict.get(key): the value, or None when the key is absent.
Get(d, key) == IF key \in DOMAIN d THEN d[key] ELSE NULL

\* Python truthiness of a str-or-None value.
\* Variant: only None is falsy, the empty string is not.
TruthyUnlessNone(v) == v # NULL

Truthy(v) == v # NULL /\ v # ""

\* Tagged values held by the local variables of a call.
NoValue == [kind |-> "none"]
Dict(d) == [kind |-> "dict", val |-> d]
HttpResponse(r) ==
  [kind |-> "response", status_code |-> r.status, text |-> r.text,
   disposition |-> r.disposition]

--------------------------------------------------------------------------
(* The environment: response bodies and replies *)

\* response.json(): the decoded mapping of each body text the server sends.
Json(text) ==
  CASE text = "tokA"     -> [access_token |-> "tA"]
    [] text = "tokB"     -> [access_token |-> "tB"]
    [] text = "tokEmpty" -> [access_token |-> ""]
    [] text = "err"      -> [error_code |-> "ec", error |-> "msg"]
    [] text = "ok"       -> [data |-> "payload"]
    [] OTHER             -> EmptyDict

\* Whether response.json() decodes the text at all (it raises otherwise).
IsJson(text) == text \in {"tokA", "tokB", "tokEmpty", "err", "ok"}

AuthStatuses == {200, 400}
AuthTexts == {"tokA", "tokB", "tokEmpty", "err"}
AuthReplies == [status : AuthStatuses, text : AuthTexts, disposition : {NULL}]

TargetStatuses == {200, 401, 403, 404, 500}
TargetTexts == {"ok", "err", "plain"}
\* The Content-Disposition header of a download: one rfc6266 parses, one it
\* rejects; the other operations do not read the header.
Dispositions == {"attachment; filename=f.txt", "malformed; filename=f.txt"}
TargetReplies == [status : TargetStatuses, text : TargetTexts, disposition : {NULL}]
DownloadReplies ==
  [status : TargetStatuses, text : TargetTexts, disposition : Dispositions]

\* The transport raises instead of returning a response.
TransportFailure == [status |-> 0, text |-> "none", disposition |-> NULL]

--------------------------------------------------------------------------
(* The exposed operations and the request each builds *)

Ops == {"get_forms", "get_registry", "get_contacts", "get_catalog", "get_form",
        "get_task", "comment_task", "create_task", "upload_file", "get_lists",
        "get_task_list", "download_file", "create_catalog", "sync_catalog"}

\* get_registry is called without a request, with a JSON one or with a CSV one.
RegistryKinds == {"none", "json", "csv"}
ReqKinds(op) == IF op = "get_registry" THEN RegistryKinds ELSE {"none"}

MAX_FILE_SIZE_IN_BYTES == 250 * 1024 * 1024

\* Sizes of the file handed to upload_file.
FileSizes == {1024, MAX_FILE_SIZE_IN_BYTES, MAX_FILE_SIZE_IN_BYTES + 1,
              260 * 1024 * 1024}
Sizes(op) == IF op = "upload_file" THEN FileSizes ELSE {0}

\* The wrongly typed arguments a caller can pass to an operation, one at a
\* time: a non-integer id, an object that is no instance of the request
\* class (a falsy one, such as {}, where get_registry would take none),
\* a non-integer item_count, a non-boolean include_archived.
BadArgs(op, rk) ==
  CASE op \in {"get_catalog", "get_form", "get_task", "download_file"} -> {"id"}
    [] op \in {"comment_task", "sync_catalog"} -> {"id", "request"}
    [] op \in {"create_task", "create_catalog"} -> {"request"}
    [] op = "get_task_list" -> {"id", "item_count", "include_archived"}
    [] op = "get_registry" ->
         IF rk = "none" THEN {"falsy_request"} ELSE {"request"}
    [] OTHER -> {}

\* Variant: the type of an id is not checked.
ArgCheckIdsUnchecked(op, bad) ==
  CASE bad \in {NULL, "falsy_request", "id"} -> NULL
    [] OTHER -> "TypeError"

\* The isinstance checks at the head of each operation: the exception the
\* argument bad makes the operation raise, NULL when no check rejects it
\* (get_registry checks its request only when the request is truthy).
ArgCheck(op, bad) ==
  CASE bad = NULL \/ bad = "falsy_request" -> NULL
    [] op \in {"get_catalog", "get_form", "get_task"} -> "Exception"
    [] op = "comment_task" /\ bad = "id" -> "Exception"
    [] OTHER -> "TypeError"

Method(op, rk) ==
  CASE op = "get_registry" -> IF rk \in {"json", "csv"} THEN "POST" ELSE "GET"
    [] op \in {"comment_task", "create_task", "sync_catalog", "upload_file"} -> "POST"
    [] op = "create_catalog" -> "PUT"
    [] OTHER -> "GET"

Body(op, rk) ==
  CASE op = "get_registry" /\ rk = "json" -> "FormRegisterRequest"
    [] op = "get_registry" /\ rk = "csv" -> "FormRegisterRequest(format=csv)"
    [] op = "comment_task" -> "TaskCommentRequest"
    [] op = "create_task" -> "CreateTaskRequest"
    [] op = "create_catalog" -> "CreateCatalogRequest"
    [] op = "sync_catalog" -> "SyncCatalogRequest"
    [] OTHER -> NULL

FilePath(op) == IF op = "upload_file" THEN "file_path" ELSE NULL

GetFile(op) == op = "download_file"

Url(op) ==
  CASE op = "get_forms" -> "/forms"
    [] op = "get_registry" -> "/forms/{id}/register"
    [] op = "get_contacts" -> "/contacts"
    [] op \in {"get_catalog", "sync_catalog"} -> "/catalogs/{id}"
    [] op = "get_form" -> "/forms/{id}"
    [] op = "get_task" -> "/tasks/{id}"
    [] op = "comment_task" -> "/tasks/{id}/comments"
    [] op = "create_task" -> "/tasks"
    [] op = "upload_file" -> "/files/upload"
    [] op = "get_lists" -> "/lists"
    [] op = "get_task_list" -> "/lists/{id}/tasks"
    [] op = "download_file" -> "files.pyrus.com/services/attachment?Id={id}"
    [] op = "create_catalog" -> "/catalogs"
    [] OTHER -> NULL

\* Whether _perform_request takes the multipart upload branch.
IsUpload(op, rk) == Method(op, rk) = "POST" /\ Truthy(FilePath(op))

--------------------------------------------------------------------------
(* State *)

IdleCall == [pc |-> "idle", op |-> "none", reqKind |-> "none", fsize |-> 0,
             entryToken |-> NULL, response |-> NoValue, mapped |-> NoValue,
             pipe |-> NoValue, out |-> NoValue, exc |-> NULL, fault |-> NULL,
             loginArg |-> NULL, keyArg |-> NULL, checked |-> NULL,
             opened |-> 0, closed |-> 0, log |-> << >>]

Init ==
  /\ login \in {NULL, "u1"}
  /\ security_key = "k1"
  /\ access_token \in {NULL, "tA"}
  /\ proxy \in {NULL, "http=p1"}
  /\ calls = [t \in Threads |-> IdleCall]

--------------------------------------------------------------------------
(* Conditions the code branches on *)

\* Variant: the pipeline never finds the token missing.
NotTokenNever(tok) == FALSE

\* "if not self.access_token": None and the empty string are both falsy.
NotToken(tok) == ~Truthy(tok)

\* "auth_response.status_code == requests.codes.ok" in _auth.
AuthOk(status) == status = 200

\* Variant: every error status counts as a rejected token.
IsAnyError(status) == status >= 400

\* "response.status_code == 401" in _perform_request_with_retry.
IsUnauthorized(status) == status = 401

\* "size > self.MAX_FILE_SIZE_IN_BYTES" in _post_file_request.
SizeExceeds(size) == size > MAX_FILE_SIZE_IN_BYTES

--------------------------------------------------------------------------
(* Requests as they reach the transport; a call's log holds its round trips *)

\* Variant: /auth is sent the login only.
AuthRequestWithoutKey(l, k, r) ==
  [kind |-> "auth", url |-> "/auth", method |-> "POST", bearer |-> NoHeader,
   userAgent |-> TRUE, contentType |-> "application/json",
   body |-> "AuthRequest", login |-> l, security_key |-> NULL,
   file |-> NULL, stream |-> FALSE, status |-> r.status, text |-> r.text,
   disposition |-> r.disposition]

\* _auth posts the stored credentials with User-Agent and Content-Type only.
AuthRequest(l, k, r) ==
  [kind |-> "auth", url |-> "/auth", method |-> "POST", bearer |-> NoHeader,
   userAgent |-> TRUE, contentType |-> "application/json",
   body |-> "AuthRequest", login |-> l, security_key |-> k,
   file |-> NULL, stream |-> FALSE, status |-> r.status, text |-> r.text,
   disposition |-> r.disposition]

\* Variant: the upload keeps the default Content-Type.
ContentTypeAlwaysJson(op, rk) == "application/json"

\* _create_default_headers, and the Content-Type removed by _post_file_request.
ContentType(op, rk) == IF IsUpload(op, rk) THEN NoHeader ELSE "application/json"

\* _perform_request: the request the method branch sends, with the token read now.
TargetRequest(op, rk, tok, r) ==
  [kind |-> "target", url |-> Url(op), method |-> Method(op, rk), bearer |-> tok,
   userAgent |-> TRUE, contentType |-> ContentType(op, rk),
   body |-> IF IsUpload(op, rk) THEN NULL ELSE Body(op, rk),
   login |-> NULL, security_key |-> NULL,
   file |-> IF IsUpload(op, rk) THEN FilePath(op) ELSE NULL,
   stream |-> (Method(op, rk) = "GET" /\ GetFile(op)),
   status |-> r.status, text |-> r.text,
   disposition |-> r.disposition]

--------------------------------------------------------------------------
(* The operations' wrappers around the pipeline's return value *)

\* Variant: the CSV format of the request is ignored.
IsCsvNever(op, rk) == FALSE

\* Whether _get_response takes the CSV branch for the request body.
IsCsv(op, rk) == op = "get_registry" /\ rk = "csv"

\* The list-valued attributes each typed response class fills from its keys.
ListKeys(cls) ==
  CASE cls = "FormsResponse" -> {"forms"}
    [] cls = "ContactsResponse" -> {"organizations"}
    [] cls \in {"FormRegisterResponse", "TaskListResponse"} -> {"tasks"}
    [] cls = "ListsResponse" -> {"lists"}
    [] cls = "SyncCatalogResponse" ->
         {"added", "updated", "deleted", "catalog_headers"}
    [] OTHER -> {}

\* The class of the elements a list-valued attribute is filled with.
ItemClass(cls, key) ==
  CASE key = "forms" -> "FormResponse"
    [] key = "organizations" -> "Organization"
    [] key = "tasks" -> IF cls = "TaskListResponse" THEN "TaskHeader" ELSE "Task"
    [] key = "lists" -> "TaskList"
    [] key = "catalog_headers" -> "CatalogHeader"
    [] OTHER -> "CatalogItem"

\* Variant: a missing key gives an empty list, as a present empty one does.
ListFieldNeverNone(cls, d, key) ==
  [kind |-> "list",
   items |-> [i \in 1..(IF key \in DOMAIN d THEN Len(d[key]) ELSE 0) |->
                [kind |-> "entity", cls |-> ItemClass(cls, key)]]]

\* A list-valued attribute: the class default None unless the key is present,
\* else a list holding one constructed element per element of the value.
ListField(cls, d, key) ==
  IF key \in DOMAIN d
  THEN [kind |-> "list",
        items |-> [i \in 1..Len(d[key]) |->
                     [kind |-> "entity", cls |-> ItemClass(cls, key)]]]
  ELSE NoValue

\* Variant: the error fields are read only from a mapping without typed keys.
TypedErrorsOnlyWhenBare(cls, d) ==
  [kind |-> "object", cls |-> cls,
   error_code |-> IF DOMAIN d \cap ListKeys(cls) = {}
                  THEN Get(d, "error_code") ELSE NULL,
   error |-> IF DOMAIN d \cap ListKeys(cls) = {} THEN Get(d, "error") ELSE NULL,
   original_response |-> d,
   fields |-> [key \in ListKeys(cls) |-> ListField(cls, d, key)]]

\* A typed response built from a decoded mapping: the class fills its own
\* attributes, BaseResponse.__init__ the error fields and original_response.
Typed(cls, d) ==
  [kind |-> "object", cls |-> cls, error_code |-> Get(d, "error_code"),
   error |-> Get(d, "error"), original_response |-> d,
   fields |-> [key \in ListKeys(cls) |-> ListField(cls, d, key)]]

\* FormRegisterResponse() with csv set afterwards.
CsvResponse(text) ==
  [kind |-> "object", cls |-> "FormRegisterResponse", error_code |-> NULL,
   error |-> NULL, original_response |-> EmptyDict,
   fields |-> [key \in {"tasks"} |-> NoValue], csv |-> text]

\* The typed response class each operation constructs from the decoded mapping.
ResponseClass(op) ==
  CASE op = "auth" -> "AuthResponse"
    [] op = "get_forms" -> "FormsResponse"
    [] op = "get_registry" -> "FormRegisterResponse"
    [] op = "get_contacts" -> "ContactsResponse"
    [] op \in {"get_catalog", "create_catalog"} -> "CatalogResponse"
    [] op \in {"get_task", "comment_task", "create_task"} -> "TaskResponse"
    [] op = "upload_file" -> "UploadResponse"
    [] op = "get_lists" -> "ListsResponse"
    [] op = "get_task_list" -> "TaskListResponse"
    [] op = "sync_catalog" -> "SyncCatalogResponse"
    [] OTHER -> "BaseResponse"

\* AuthResponse.__init__: success is the presence of the access_token key.
AuthResponse(d) ==
  [kind |-> "object", cls |-> "AuthResponse", error_code |-> Get(d, "error_code"),
   error |-> Get(d, "error"), original_response |-> d,
   access_token |-> Get(d, "access_token"), success |-> "access_token" \in DOMAIN d]

\* DownloadResponse.__init__: the base class is given an empty mapping.
DownloadResponse(filename, raw_file) ==
  [kind |-> "object", cls |-> "DownloadResponse", error_code |-> NULL,
   error |-> NULL, original_response |-> EmptyDict,
   filename |-> filename, raw_file |-> raw_file]

\* The filename download_file takes from Content-Disposition: rfc6266's when
\* it parses the header, else the list of matches re.findall gives.
Filename(disposition) ==
  IF disposition = "attachment; filename=f.txt" THEN "f.txt" ELSE "['f.txt']"

\* Variant: 404 is not singled out and falls to the generic server error.
DownloadResultNotFoundIsServerError(status, text, disposition) ==
  IF status = 200 THEN DownloadResponse(Filename(disposition), text)
  ELSE IF status = 401 THEN Typed("BaseResponse", [error_code |-> "authorization_error"])
  ELSE IF status = 403
  THEN Typed("BaseResponse", [error_code |-> "access_denied_file"])
  ELSE Typed("BaseResponse", [error_code |-> "ServerError"])

\* download_file's mapping of the final status to its result.
DownloadResult(status, text, disposition) ==
  IF status = 200 THEN DownloadResponse(Filename(disposition), text)
  ELSE IF status = 401 THEN Typed("BaseResponse", [error_code |-> "authorization_error"])
  ELSE IF status = 403 \/ status = 404
  THEN Typed("BaseResponse", [error_code |-> "access_denied_file"])
  ELSE Typed("BaseResponse", [error_code |-> "ServerError"])

\* The Form and Catalog entities get_form and get_catalog return.
Entity(cls) == [kind |-> "entity", cls |-> cls]

Returns(v) == [exc |-> NULL, out |-> v]
Raises(e) == [exc |-> e, out |-> NoValue]

\* Variant: get_form builds its result from the value the pipeline returned.
WrapResultFormFromResponse(op, rk, v) ==
  CASE op = "auth" -> Returns(AuthResponse(v.val))
    [] op = "get_registry" /\ rk = "csv" -> Returns(v)
    [] op = "get_catalog" ->
         IF Truthy(Typed("CatalogResponse", v.val).error)
         THEN Raises("Exception") ELSE Returns(Entity("Catalog"))
    [] op = "get_form" -> Returns(Typed("FormResponse", v.val))
    [] op = "download_file" ->
         IF v.kind = "response" THEN Returns(DownloadResult(v.status_code, v.text,
                                                             v.disposition))
         ELSE Raises("AttributeError")
    [] OTHER -> Returns(Typed(ResponseClass(op), v.val))

\* What the operation does with the value v the pipeline returned.
WrapResult(op, rk, v) ==
  CASE op = "auth" -> Returns(AuthResponse(v.val))
    [] op = "get_registry" /\ rk = "csv" -> Returns(v)
    [] op = "get_catalog" ->
         IF Truthy(Typed("CatalogResponse", v.val).error)
         THEN Raises("Exception") ELSE Returns(Entity("Catalog"))
    [] op = "get_form" -> Returns(Entity("Form"))
    [] op = "download_file" ->
         IF v.kind = "response" THEN Returns(DownloadResult(v.status_code, v.text,
                                                             v.disposition))
         ELSE Raises("AttributeError")
    [] OTHER -> Returns(Typed(ResponseClass(op), v.val))

\* The operation returns to its caller, or raises: the call's state once the
\* pipeline has returned the value held in pipe.
Wrap(c) ==
  LET w == WrapResult(c.op, c.reqKind, c.pipe)
  IN [c EXCEPT !.pc = "done", !.out = w.out, !.exc = w.exc]

--------------------------------------------------------------------------
(* _auth *)

\* Variant: a successful /auth leaves the stored token as it was.
AuthEffectKeepsToken(cur, r) ==
  IF r = TransportFailure
  THEN [exc |-> "TransportError", token |-> cur, response |-> NoValue]
  ELSE IF AuthOk(r.status)
  THEN IF "access_token" \in DOMAIN Json(r.text)
       THEN [exc |-> NULL, token |-> cur, response |-> Dict(Json(r.text))]
       ELSE [exc |-> "KeyError", token |-> cur, response |-> NoValue]
  ELSE [exc |-> NULL, token |-> NULL, response |-> Dict(Json(r.text))]

\* Variant: a transport failure of /auth clears the stored token.
AuthEffectClearsOnFailure(cur, r) ==
  IF r = TransportFailure
  THEN [exc |-> "TransportError", token |-> NULL, response |-> NoValue]
  ELSE IF AuthOk(r.status)
  THEN IF "access_token" \in DOMAIN Json(r.text)
       THEN [exc |-> NULL, token |-> Json(r.text)["access_token"],
             response |-> Dict(Json(r.text))]
       ELSE [exc |-> "KeyError", token |-> cur, response |-> NoValue]
  ELSE [exc |-> NULL, token |-> NULL, response |-> Dict(Json(r.text))]

\* What _auth does with the reply r when the stored token is cur:
\* the exception it raises (if any), the token it leaves stored, its return value.
AuthEffect(cur, r) ==
  IF r = TransportFailure
  THEN [exc |-> "TransportError", token |-> cur, response |-> NoValue]
  ELSE IF AuthOk(r.status)
  THEN IF "access_token" \in DOMAIN Json(r.text)
       THEN [exc |-> NULL, token |-> Json(r.text)["access_token"],
             response |-> Dict(Json(r.text))]
       ELSE [exc |-> "KeyError", token |-> cur, response |-> NoValue]
  ELSE [exc |-> NULL, token |-> NULL, response |-> Dict(Json(r.text))]

\* Where the pipeline continues after its call of _auth.
AfterAuth(pc) == IF pc = "auth1" THEN "chk1" ELSE "chk2"

\* One /auth round trip: by auth() (auth0), at entry (auth1), after a 401 (auth2).
AuthWith(t, replies) ==
  LET c == calls[t] IN
  /\ c.pc \in {"auth0", "auth1", "auth2"}
  /\ \E r \in replies :
       LET e == AuthEffect(access_token, r)
           sent == Append(c.log, AuthRequest(login, security_key, r))
       IN /\ access_token' = e.token
          /\ calls' = [calls EXCEPT ![t] =
               IF e.exc # NULL
               THEN [c EXCEPT !.pc = "done", !.exc = e.exc, !.log = sent]
               ELSE IF c.pc = "auth0"
               THEN Wrap([c EXCEPT !.response = e.response, !.pipe = e.response,
                                   !.log = sent])
               ELSE [c EXCEPT !.pc = AfterAuth(c.pc), !.response = e.response,
                              !.log = sent]]
  /\ UNCHANGED <<login, security_key, proxy>>

\* /auth is answered by any reply of the server or the transport fails.
Auth(t) == AuthWith(t, AuthReplies \cup {TransportFailure})

--------------------------------------------------------------------------
(* The exposed operations' entry *)

LoginArgs == {NULL, "", "u2"}
KeyArgs == {NULL, "k2"}

\* auth(login, security_key): stores the truthy arguments, then calls _auth.
AuthCall(t) ==
  /\ \A u \in Threads : calls[u].pc = "idle"
  /\ \E l \in LoginArgs, k \in KeyArgs :
       /\ login' = IF Truthy(l) THEN l ELSE login
       /\ security_key' = IF Truthy(k) THEN k ELSE security_key
       /\ calls' = [calls EXCEPT ![t] =
            [IdleCall EXCEPT !.pc = "auth0", !.op = "auth",
                             !.entryToken = access_token,
                             !.loginArg = l, !.keyArg = k]]
  /\ UNCHANGED <<access_token, proxy>>

\* Variant: the pipeline authenticates at entry whether or not a token is held.
StartCallAlwaysAuth(op, rk, sz, bad, tok) ==
  LET c == [IdleCall EXCEPT !.op = op, !.reqKind = rk, !.fsize = sz,
                            !.entryToken = tok, !.fault = bad]
  IN IF ArgCheck(op, bad) # NULL
     THEN [c EXCEPT !.pc = "done", !.exc = ArgCheck(op, bad)]
     ELSE [c EXCEPT !.pc = "auth1", !.checked = tok]

\* The call's state after the operation's argument checks and the token check
\* at the head of _perform_request_with_retry.
StartCall(op, rk, sz, bad, tok) ==
  LET c == [IdleCall EXCEPT !.op = op, !.reqKind = rk, !.fsize = sz,
                            !.entryToken = tok, !.fault = bad]
  IN IF ArgCheck(op, bad) # NULL
     THEN [c EXCEPT !.pc = "done", !.exc = ArgCheck(op, bad)]
     ELSE IF NotToken(tok) THEN [c EXCEPT !.pc = "auth1", !.checked = tok]
     ELSE [c EXCEPT !.pc = "req1", !.checked = tok]

\* An exposed operation is called: arguments are checked, the URL is built,
\* _perform_request_with_retry is entered.
Enter(t, ops) ==
  /\ calls[t].pc = "idle"
  /\ \E op \in ops :
       \E rk \in ReqKinds(op), sz \in Sizes(op) :
         \E bad \in BadArgs(op, rk) \cup {NULL} :
           calls' = [calls EXCEPT ![t] = StartCall(op, rk, sz, bad, access_token)]
  /\ UNCHANGED <<login, security_key, access_token, proxy>>

\* The client is used by one caller at a time: a call begins when no other
\* call is under way.
Begin(t) ==
  /\ \A u \in Threads : calls[u].pc = "idle"
  /\ Enter(t, Ops)

--------------------------------------------------------------------------
(* _perform_request_with_retry *)

\* "if not self.access_token: return response" after an _auth.
Chk(t) ==
  LET c == calls[t] IN
  /\ c.pc \in {"chk1", "chk2"}
  /\ calls' = [calls EXCEPT ![t] =
       IF NotToken(access_token)
       THEN Wrap([c EXCEPT !.pipe = c.response, !.checked = access_token])
       ELSE [c EXCEPT !.pc = IF c.pc = "chk1" THEN "req1" ELSE "req2",
                      !.checked = access_token]]
  /\ UNCHANGED <<login, security_key, access_token, proxy>>

\* _get_response: the call's state once the final response is handed to it.
GetResponse(c, response) ==
  LET d == [c EXCEPT !.response = response, !.mapped = response]
  IN IF IsCsv(c.op, c.reqKind)
     THEN Wrap([d EXCEPT !.pipe = CsvResponse(response.text)])
     ELSE IF GetFile(c.op)
     THEN Wrap([d EXCEPT !.pipe = response])
     ELSE IF IsJson(response.text)
     THEN Wrap([d EXCEPT !.pipe = Dict(Json(response.text))])
     ELSE [d EXCEPT !.pc = "done", !.exc = "ValueError"]

\* Variant: no 401 re-authenticates, every response is final.
RetriesNever(pc, status) == FALSE

\* Variant: every 401 re-authenticates, the answer to the retry included.
RetriesEvery401(pc, status) == IsUnauthorized(status)

\* Whether the reply to this dispatch sends the pipeline to re-authenticate.
Retries(pc, status) == pc = "req1" /\ IsUnauthorized(status)

\* _perform_request: one dispatch of the target request (first or retried),
\* followed by the status check and, for a final response, _get_response.
\* The replies the server can give to an operation's target request.
Replies(op) == IF GetFile(op) THEN DownloadReplies ELSE TargetReplies

\* _post_file_request opens the file and never calls close(): once the
\* function has returned or raised, the handle is closed only when the
\* interpreter finalizes the file object, at once (1) or not yet (0).
Closes(op, rk) == IF IsUpload(op, rk) THEN {0, 1} ELSE {0}

\* Variant: the retried dispatch is sent without the body.
DispatchRetryDropsBody(c, tok, r) ==
  IF c.pc = "req2"
  THEN [TargetRequest(c.op, c.reqKind, tok, r) EXCEPT !.body = NULL]
  ELSE TargetRequest(c.op, c.reqKind, tok, r)

\* The request a dispatch of the call issues: both call sites of
\* _perform_request pass the pipeline's own arguments.
Dispatch(c, tok, r) == TargetRequest(c.op, c.reqKind, tok, r)

ReqWith(t, replies) ==
  LET c == calls[t] IN
  /\ c.pc \in {"req1", "req2"}
  /\ IF IsUpload(c.op, c.reqKind) /\ SizeExceeds(c.fsize)
     THEN calls' = [calls EXCEPT ![t] =
            [c EXCEPT !.pc = "done", !.exc = "FileSizeError"]]
     ELSE \E r \in replies :
          \E closes \in Closes(c.op, c.reqKind) :
            LET d == [c EXCEPT
                        !.log = Append(c.log, Dispatch(c, access_token, r)),
                        !.opened = IF IsUpload(c.op, c.reqKind)
                                   THEN c.opened + 1 ELSE c.opened,
                        !.closed = c.closed + closes]
            IN calls' = [calls EXCEPT ![t] =
                 IF r = TransportFailure
                 THEN [d EXCEPT !.pc = "done", !.exc = "TransportError"]
                 ELSE IF Retries(c.pc, r.status)
                 THEN [d EXCEPT !.pc = "auth2", !.response = HttpResponse(r)]
                 ELSE GetResponse(d, HttpResponse(r))]
  /\ UNCHANGED <<login, security_key, access_token, proxy>>

\* The target request is answered by any reply of the server or the
\* transport fails.
Req(t) == ReqWith(t, Replies(calls[t].op) \cup {TransportFailure})

\* The caller has taken the result; the call's locals are gone.
Reset(t) ==
  /\ calls[t].pc = "done"
  /\ calls' = [calls EXCEPT ![t] = IdleCall]
  /\ UNCHANGED <<login, security_key, access_token, proxy>>

--------------------------------------------------------------------------
(* Specification: the client is used by one caller at a time *)

Next ==
  \E t \in Threads :
    \/ AuthCall(t)
    \/ Begin(t)
    \/ Auth(t)
    \/ Chk(t)
    \/ Req(t)
    \/ Reset(t)

Spec == Init /\ [][Next]_vars

--------------------------------------------------------------------------
(* Vocabulary of the properties *)

\* The round trips of a call, by position in its log.
AuthIdx(c) == {i \in DOMAIN c.log : c.log[i].kind = "auth"}
TargetIdx(c) == {i \in DOMAIN c.log : c.log[i].kind = "target"}
NumAuth(c) == Cardinality(AuthIdx(c))
NumTarget(c) == Cardinality(TargetIdx(c))

\* The transport returned a response for the round trip e.
Answered(e) == e.status # 0

\* /auth issued a usable token: a 200 whose body holds a non-empty access_token.
AuthSucceeds(e) ==
  /\ e.kind = "auth" /\ e.status = 200
  /\ "access_token" \in DOMAIN Json(e.text)
  /\ Truthy(Json(e.text)["access_token"])

\* /auth answered with a failure: a non-2xx status, or a body lacking access_token.
AuthFails(e) ==
  /\ e.kind = "auth" /\ Answered(e)
  /\ (e.status \notin 200..299 \/ "access_token" \notin DOMAIN Json(e.text))

\* /auth answered with a non-2xx status.
AuthRejected(e) == e.kind = "auth" /\ Answered(e) /\ e.status \notin 200..299

\* The call went through the request pipeline (every operation but auth()).
InPipeline(c) == c.op \in Ops

\* The call was entered with a token, its first dispatch was answered 401 and
\* the re-authentication that followed succeeded.
RejectedThenReissued(c) ==
  /\ InPipeline(c) /\ Truthy(c.entryToken)
  /\ Len(c.log) >= 2
  /\ c.log[1].kind = "target" /\ c.log[1].status = 401
  /\ AuthSucceeds(c.log[2])

--------------------------------------------------------------------------
(* C1 *)

\* C1: a call entered with a token whose first dispatch is answered 401 and
\* whose re-authentication succeeds sends exactly one /auth request, then
\* dispatches the target exactly once more, and the response to that second
\* dispatch is what the pipeline hands on, whatever its status: a second 401
\* causes no further /auth request and no third dispatch.
C1_RetryOnceAfterReauth ==
  \A t \in Threads :
    LET c == calls[t] IN
    RejectedThenReissued(c) =>
      /\ NumAuth(c) = 1
      /\ Len(c.log) <= 3
      /\ c.pc \in {"chk2", "req2", "done"}
      /\ c.pc = "done" =>
           /\ Len(c.log) = 3 /\ c.log[3].kind = "target"
           /\ IF Answered(c.log[3])
              THEN c.mapped = HttpResponse(c.log[3])
              ELSE c.exc = "TransportError"

\* A second 401 has been surfaced as the call's final response.
C1_Witness ==
  \E t \in Threads :
    LET c == calls[t] IN
    /\ RejectedThenReissued(c) /\ c.pc = "done"
    /\ c.mapped = HttpResponse([status |-> 401, text |-> "err", disposition |-> NULL])

--------------------------------------------------------------------------
(* C2 *)

\* C2 (as claimed): one call performs at most two network round trips in
\* total, /auth requests and target requests counted together.
C2_AtMostTwoRoundTrips ==
  \A t \in Threads : Len(calls[t].log) <= 2

\* C2 (amended): one call performs at most four round trips: at most two
\* /auth requests (one at entry when no token is held, one after a 401) and at
\* most two dispatches of the target; a call entered with a token performs at
\* most three, and auth() exactly one.
C2_AtMostFourRoundTrips ==
  \A t \in Threads :
    LET c == calls[t] IN
    /\ Len(c.log) <= 4
    /\ NumAuth(c) <= 2
    /\ NumTarget(c) <= 2
    /\ InPipeline(c) /\ Truthy(c.entryToken) => Len(c.log) <= 3
    /\ c.op = "auth" => Len(c.log) <= 1

\* A call that made four round trips: /auth, target, /auth, target.
C2_Witness ==
  \E t \in Threads :
    LET c == calls[t] IN
    /\ InPipeline(c) /\ c.pc = "done" /\ Len(c.log) = 4
    /\ NumAuth(c) = 2 /\ NumTarget(c) = 2

--------------------------------------------------------------------------
(* C3 *)

\* C3 (as claimed): when a call starts with no stored token and the entry
\* authentication fails, the target request is never dispatched, the stored
\* token stays null, and the value the pipeline returns is the decoded /auth
\* error payload.
C3_EntryAuthFailureReturnsPayload ==
  \A t \in Threads :
    LET c == calls[t] IN
    ( /\ InPipeline(c) /\ c.entryToken = NULL
      /\ Len(c.log) >= 1 /\ AuthFails(c.log[1]) ) =>
      /\ NumTarget(c) = 0
      /\ access_token = NULL
      /\ c.pc = "done" => c.pipe = Dict(Json(c.log[1].text))

--------------------------------------------------------------------------
(* C4 *)

\* The first dispatch of the call was answered 401 and the re-authentication
\* that followed it, at position i of the log, failed.
ReauthFailedAt(c, i) ==
  /\ i \in AuthIdx(c) /\ i > 1
  /\ c.log[i - 1].kind = "target" /\ c.log[i - 1].status = 401
  /\ AuthFails(c.log[i])

\* C4 (as claimed): when the first target response is 401 and the
\* re-authentication that follows fails, the call terminates with the /auth
\* error payload as its result, the target is not dispatched a second time,
\* and the stored token is null afterwards.
C4_ReauthFailureReturnsPayload ==
  \A t \in Threads :
    LET c == calls[t] IN
    \A i \in DOMAIN c.log :
      (InPipeline(c) /\ ReauthFailedAt(c, i)) =>
        /\ NumTarget(c) = 1
        /\ c.pc = "done" =>
             /\ c.pipe = Dict(Json(c.log[i].text))
             /\ access_token = NULL

--------------------------------------------------------------------------
(* C5 *)

\* The operations C5 names.
C5Ops == Ops \ {"get_form"}

\* C5 (as claimed, for an /auth answered with a non-2xx status): for each of
\* the operations, an authentication failure at entry or after a 401 ends the
\* call by returning a response object whose error_code and error are those
\* of the /auth error; no exception is raised.
C5_AuthFailureIsErrorResponse ==
  \A t \in Threads :
    LET c == calls[t]
        e == c.log[Len(c.log)]
    IN ( /\ c.op \in C5Ops /\ c.pc = "done"
         /\ Len(c.log) >= 1 /\ AuthRejected(e) ) =>
         /\ c.exc = NULL
         /\ c.out.kind = "object"
         /\ c.out.error_code = Get(Json(e.text), "error_code")
         /\ c.out.error = Get(Json(e.text), "error")

--------------------------------------------------------------------------
(* C6 *)

\* /auth answered 200 with a body that holds an access_token.
AuthIssues(e) ==
  e.kind = "auth" /\ e.status = 200 /\ "access_token" \in DOMAIN Json(e.text)

\* C6 (as claimed): auth() stores the token and returns success = true when
\* /auth answers successfully with an access_token; on a failure (a non-2xx
\* status, or a body lacking access_token) it stores no token and returns
\* success = false with the error body's error_code and error unchanged; it
\* raises in neither case.
C6_AuthResult ==
  \A t \in Threads :
    LET c == calls[t]
        e == c.log[1]
    IN (c.op = "auth" /\ c.pc = "done" /\ Answered(e)) =>
         /\ AuthIssues(e) =>
              /\ c.exc = NULL
              /\ access_token = Json(e.text)["access_token"]
              /\ c.out.success = TRUE
         /\ AuthFails(e) =>
              /\ c.exc = NULL
              /\ access_token = NULL
              /\ c.out.success = FALSE
              /\ c.out.error_code = Get(Json(e.text), "error_code")
              /\ c.out.error = Get(Json(e.text), "error")

--------------------------------------------------------------------------
(* C7 *)

\* In this step the call of t received an answer to an /auth request.
AuthAnswered(t) ==
  /\ Len(calls'[t].log) = Len(calls[t].log) + 1
  /\ calls'[t].log[Len(calls'[t].log)].kind = "auth"
  /\ Answered(calls'[t].log[Len(calls'[t].log)])

\* The token C7 expects to be stored after the answer e to an /auth request.
TokenExpected(e) ==
  IF AuthIssues(e) THEN Json(e.text)["access_token"] ELSE NULL

C7_Step ==
  /\ \A t \in Threads :
       AuthAnswered(t) =>
         access_token' = TokenExpected(calls'[t].log[Len(calls'[t].log)])
  /\ (\A t \in Threads : ~AuthAnswered(t)) => access_token' = access_token

\* C7 (as claimed): after every authentication attempt (auth(), entry
\* authentication, re-authentication) the stored token is the newly issued
\* token if the attempt succeeded and null if it failed, so that a failed
\* attempt clears a token held before; no other step changes the stored token.
C7_TokenFollowsAuth == [][C7_Step]_vars

--------------------------------------------------------------------------
(* C8 *)

\* Position i holds the first dispatch of the call's target request.
FirstTargetAt(c, i) == i \in TargetIdx(c) /\ \A j \in TargetIdx(c) : j >= i

\* C8: a call contacts /auth only when no token is stored at entry or when its
\* first target response is 401; hence a call entered with a token sends no
\* /auth request if its target is not answered 401, and never more than one.
C8_AuthOnlyWhenNeeded ==
  \A t \in Threads :
    LET c == calls[t] IN
    InPipeline(c) =>
      /\ \A i \in AuthIdx(c) :
           \/ i = 1 /\ ~Truthy(c.entryToken)
           \/ i > 1 /\ FirstTargetAt(c, i - 1) /\ c.log[i - 1].status = 401
      /\ Truthy(c.entryToken) =>
           /\ NumAuth(c) <= 1
           /\ (Len(c.log) >= 1 /\ c.log[1].status # 401) => NumAuth(c) = 0

\* A call entered with a token has ended on a 200 without contacting /auth.
C8_Witness ==
  \E t \in Threads :
    LET c == calls[t] IN
    /\ InPipeline(c) /\ Truthy(c.entryToken) /\ c.pc = "done"
    /\ Len(c.log) = 1 /\ c.log[1].kind = "target" /\ c.log[1].status = 200
    /\ c.exc = NULL

--------------------------------------------------------------------------
(* C9 *)

\* C9: when the first target response has a status other than 401, the call
\* sends no /auth request after it, does not dispatch the target again, leaves
\* the stored token as it was at the dispatch, and hands exactly that response
\* to _get_response.
C9_Non401IsFinal ==
  \A t \in Threads :
    LET c == calls[t] IN
    \A i \in DOMAIN c.log :
      ( /\ InPipeline(c) /\ FirstTargetAt(c, i)
        /\ Answered(c.log[i]) /\ c.log[i].status # 401 ) =>
        /\ Len(c.log) = i
        /\ c.pc = "done"
        /\ c.mapped = HttpResponse(c.log[i])
        /\ access_token = c.log[i].bearer

\* A first response of status 500 has been handed to _get_response.
C9_Witness ==
  \E t \in Threads :
    LET c == calls[t] IN
    /\ InPipeline(c) /\ c.pc = "done" /\ NumTarget(c) = 1
    /\ c.log[Len(c.log)].kind = "target" /\ c.log[Len(c.log)].status = 500
    /\ c.mapped = HttpResponse([status |-> 500, text |-> "err", disposition |-> NULL])

--------------------------------------------------------------------------
(* C10 *)

\* C10 (as claimed): upload_file with a file larger than 250 MiB fails with
\* the size-limit error before any round trip of the call (no /auth request,
\* no upload request), whether or not a token is held at entry; a file of
\* exactly 250 MiB passes the check and the upload is dispatched.
C10_SizeLimitBeforeNetwork ==
  \A t \in Threads :
    LET c == calls[t] IN
    (c.op = "upload_file" /\ c.pc # "idle") =>
      /\ c.fsize > 250 * 1024 * 1024 =>
           /\ Len(c.log) = 0
           /\ c.pc = "done" => c.exc = "FileSizeError"
      /\ c.fsize = 250 * 1024 * 1024 => c.exc # "FileSizeError"

--------------------------------------------------------------------------
(* C11 *)

\* The last round trip of the call, when it made one.
Final(c) == c.log[Len(c.log)]

\* The call has returned or raised after the server answered its target
\* request: the result is built from that answer.
AnsweredByTarget(c) ==
  /\ c.pc = "done" /\ Len(c.log) > 0
  /\ Final(c).kind = "target" /\ Answered(Final(c))

\* C11 (as claimed): every file handle a call opened for an upload is closed
\* by the time the call has returned or raised, whatever the outcome, so that
\* no upload handle is open between calls.
C11_HandlesClosedOnReturn ==
  \A t \in Threads :
    LET c == calls[t] IN
    c.pc \in {"idle", "done"} => c.closed = c.opened

--------------------------------------------------------------------------
(* C12 *)

--------------------------------------------------------------------------
(* C13 *)

\* C13: when the server answers a get_registry request made with a CSV
\* FormRegisterRequest, the call returns a FormRegisterResponse whose csv is
\* the body text as sent and whose tasks is unset, whatever the body, one
\* that reads as JSON included.
C13_CsvBodyVerbatim ==
  \A t \in Threads :
    LET c == calls[t] IN
    (c.op = "get_registry" /\ c.reqKind = "csv" /\ AnsweredByTarget(c)) =>
      /\ c.exc = NULL /\ c.out.kind = "object"
      /\ c.out.cls = "FormRegisterResponse"
      /\ c.out.csv = Final(c).text
      /\ c.out.fields["tasks"] = NoValue

\* A CSV registry call answered 200 with a body that reads as JSON has
\* returned that body as csv.
C13_Witness ==
  \E t \in Threads :
    LET c == calls[t] IN
    /\ c.op = "get_registry" /\ c.reqKind = "csv" /\ AnsweredByTarget(c)
    /\ Final(c).status = 200 /\ Final(c).text = "ok" /\ IsJson("ok")
    /\ c.out.kind = "object" /\ c.out.csv = "ok"

--------------------------------------------------------------------------
(* C14 *)

\* The server's answer e reports a logical API error: a non-2xx status, or a
\* 2xx body carrying error fields.
LogicalError(e) ==
  /\ e.kind = "target" /\ Answered(e)
  /\ \/ e.status \notin 200..299
     \/ DOMAIN Json(e.text) \cap {"error_code", "error"} # {}

\* The operations whose result is decoded from a JSON body (download_file and
\* the CSV registry have their own policies).
DecodesJson(c) ==
  InPipeline(c) /\ c.op # "download_file" /\ ~(c.op = "get_registry" /\ c.reqKind = "csv")

\* C14 (as claimed): a logical API error answered to an operation is returned
\* as a typed response object whose error_code and error are those of the
\* body; it is neither raised nor replaced by a success-shaped result.
C14_LogicalErrorIsReturned ==
  \A t \in Threads :
    LET c == calls[t] IN
    (DecodesJson(c) /\ AnsweredByTarget(c) /\ LogicalError(Final(c))
       /\ IsJson(Final(c).text)) =>
      /\ c.exc = NULL /\ c.out.kind = "object"
      /\ c.out.error_code = Get(Json(Final(c).text), "error_code")
      /\ c.out.error = Get(Json(Final(c).text), "error")

\* The same statement without get_catalog and get_form.
C14_OtherOperations ==
  \A t \in Threads :
    LET c == calls[t] IN
    (DecodesJson(c) /\ c.op \notin {"get_catalog", "get_form"}
       /\ AnsweredByTarget(c) /\ LogicalError(Final(c))
       /\ IsJson(Final(c).text)) =>
      /\ c.exc = NULL /\ c.out.kind = "object"
      /\ c.out.error_code = Get(Json(Final(c).text), "error_code")
      /\ c.out.error = Get(Json(Final(c).text), "error")

--------------------------------------------------------------------------
(* C15 *)

\* The call has returned a response object built from the answer to its last
\* round trip.
ObjectFromAnswer(c) ==
  /\ c.pc = "done" /\ Len(c.log) > 0 /\ Answered(Final(c))
  /\ c.exc = NULL /\ c.out.kind = "object"

\* The object is built from a payload kept as raw text: a downloaded file or
\* a CSV registry.
FromRawPayload(c) ==
  /\ Final(c).kind = "target"
  /\ \/ c.op = "download_file" /\ Final(c).status = 200
     \/ c.op = "get_registry" /\ c.reqKind = "csv"

\* C15 (as claimed): every response object holds in original_response the
\* payload the server sent: the decoded mapping for a JSON body and, for a
\* downloaded file or a CSV registry, the (non-empty) raw payload rather than
\* an empty mapping.
C15_OriginalResponseIsPayload ==
  \A t \in Threads :
    LET c == calls[t] IN
    ObjectFromAnswer(c) =>
      IF FromRawPayload(c)
      THEN c.out.original_response # EmptyDict
      ELSE c.op # "download_file" =>
             c.out.original_response = Json(Final(c).text)

\* The same statement for the objects built from a JSON body only.
C15_JsonResponses ==
  \A t \in Threads :
    LET c == calls[t] IN
    (ObjectFromAnswer(c) /\ ~FromRawPayload(c) /\ c.op # "download_file") =>
      c.out.original_response = Json(Final(c).text)

--------------------------------------------------------------------------
(* The response constructors applied to arbitrary decoded mappings *)

\* The longest list a mapping holds under a typed key.
MaxItems == 1

\* Every key a typed response class reads a list from.
AllListKeys ==
  {"forms", "organizations", "tasks", "lists", "added", "updated", "deleted",
   "catalog_headers"}

\* The decoded mappings: any subset of the list keys, each holding a list of
\* n element mappings, with or without each of the two error keys.
Payloads ==
  { [key \in present \cup errs |->
       IF key \in present THEN [i \in 1..n |-> EmptyDict]
       ELSE IF key = "error_code" THEN "ec" ELSE "msg"] :
    present \in SUBSET AllListKeys, errs \in SUBSET {"error_code", "error"},
    n \in 0..MaxItems }

\* The operations that build their result from a decoded mapping.
MapperOps == (Ops \ {"download_file"}) \cup {"auth"}

\* An operation holds the mapping its pipeline returned and has yet to build
\* its result from it.
InitMapper ==
  /\ login = NULL /\ security_key = "k1" /\ access_token = "tA" /\ proxy = NULL
  /\ \E op \in MapperOps : \E d \in Payloads :
     \E rk \in (IF op = "auth" THEN {"none"} ELSE ReqKinds(op) \ {"csv"}) :
       calls = [t \in Threads |->
                  IF t = "t1"
                  THEN [IdleCall EXCEPT !.pc = "wrap", !.op = op, !.reqKind = rk,
                                        !.entryToken = "tA", !.pipe = Dict(d)]
                  ELSE IdleCall]

\* The operation builds its result from the mapping and returns or raises.
Construct(t) ==
  /\ calls[t].pc = "wrap"
  /\ calls' = [calls EXCEPT ![t] = Wrap(calls[t])]
  /\ UNCHANGED <<login, security_key, access_token, proxy>>

NextMapper == \E t \in Threads : Construct(t)

SpecMapper == InitMapper /\ [][NextMapper]_vars

--------------------------------------------------------------------------
(* C16 *)

\* The call has built a typed response object from the mapping in pipe.
BuiltFromMapping(c) ==
  c.pc = "done" /\ c.pipe.kind = "dict" /\ c.exc = NULL /\ c.out.kind = "object"

\* C16: a typed response built from a decoded mapping has error_code and
\* error equal to the mapping's top-level values of those keys, null when the
\* key is absent, whether or not the keys of its typed fields are present.
C16_ErrorFieldsFromMapping ==
  \A t \in Threads :
    LET c == calls[t] IN
    BuiltFromMapping(c) =>
      /\ c.out.error_code =
           (IF "error_code" \in DOMAIN c.pipe.val
            THEN c.pipe.val["error_code"] ELSE NULL)
      /\ c.out.error =
           (IF "error" \in DOMAIN c.pipe.val THEN c.pipe.val["error"] ELSE NULL)

\* A task-list response built from a mapping holding both tasks and the error
\* keys carries the error values.
C16_Witness ==
  \E t \in Threads :
    LET c == calls[t] IN
    /\ BuiltFromMapping(c) /\ c.out.cls = "TaskListResponse"
    /\ {"tasks", "error_code", "error"} \subseteq DOMAIN c.pipe.val
    /\ c.out.error_code = "ec" /\ c.out.error = "msg"

--------------------------------------------------------------------------
(* C17 *)

\* The list-valued attributes the claim names, by response class.
ClaimedListFields(cls) ==
  CASE cls = "FormsResponse" -> {"forms"}
    [] cls = "ContactsResponse" -> {"organizations"}
    [] cls = "FormRegisterResponse" -> {"tasks"}
    [] cls = "TaskListResponse" -> {"tasks"}
    [] cls = "ListsResponse" -> {"lists"}
    [] cls = "SyncCatalogResponse" ->
         {"added", "updated", "deleted", "catalog_headers"}
    [] OTHER -> {}

\* C17: each list-valued attribute of a typed response is null when its key
\* is missing from the mapping and an empty list when the key is present with
\* an empty list.
C17_MissingIsNullEmptyIsEmpty ==
  \A t \in Threads :
    LET c == calls[t] IN
    BuiltFromMapping(c) =>
      \A key \in ClaimedListFields(c.out.cls) :
        /\ key \in DOMAIN c.out.fields
        /\ key \notin DOMAIN c.pipe.val => c.out.fields[key] = [kind |-> "none"]
        /\ (key \in DOMAIN c.pipe.val /\ Len(c.pipe.val[key]) = 0) =>
             c.out.fields[key] = [kind |-> "list", items |-> << >>]

\* A synchronisation response built from a mapping in which added is an
\* empty list and deleted is missing: added is empty, deleted is null.
C17_Witness ==
  \E t \in Threads :
    LET c == calls[t] IN
    /\ BuiltFromMapping(c) /\ c.out.cls = "SyncCatalogResponse"
    /\ "added" \in DOMAIN c.pipe.val /\ Len(c.pipe.val["added"]) = 0
    /\ "deleted" \notin DOMAIN c.pipe.val
    /\ c.out.fields["added"] = [kind |-> "list", items |-> << >>]
    /\ c.out.fields["deleted"] = [kind |-> "none"]

--------------------------------------------------------------------------
(* C18 *)

\* C18 (as claimed): a call given a wrongly typed argument (an id, a request
\* object, item_count or include_archived) fails at once: it has raised
\* without any round trip and the stored token is the one held at entry.
C18_BadArgumentFailsAtOnce ==
  \A t \in Threads :
    LET c == calls[t] IN
    (c.pc # "idle" /\ c.fault # NULL) =>
      /\ c.pc = "done" /\ c.exc \in {"TypeError", "Exception"}
      /\ Len(c.log) = 0
      /\ access_token = c.entryToken

\* The same statement for every wrongly typed argument but a falsy object
\* given to get_registry as its request.
C18_CheckedArguments ==
  \A t \in Threads :
    LET c == calls[t] IN
    (c.pc # "idle" /\ c.fault \in {"id", "request", "item_count", "include_archived"}) =>
      /\ c.pc = "done" /\ c.exc \in {"TypeError", "Exception"}
      /\ Len(c.log) = 0
      /\ access_token = c.entryToken

--------------------------------------------------------------------------
(* C19 *)

\* C19: every target request carries an Authorization header (Bearer and the
\* token) and a User-Agent; every target request but the multipart upload
\* carries Content-Type application/json and the upload carries none; the
\* /auth request carries no Authorization header.
C19_RequestHeaders ==
  \A t \in Threads :
    \A i \in DOMAIN calls[t].log :
      LET e == calls[t].log[i] IN
      IF e.kind = "target"
      THEN /\ e.bearer # "<absent>" /\ e.userAgent
           /\ e.contentType =
                (IF e.url = "/files/upload" THEN "<absent>" ELSE "application/json")
      ELSE e.bearer = "<absent>"

\* An upload has been dispatched with the token and without Content-Type.
C19_Witness ==
  \E t \in Threads :
    \E i \in DOMAIN calls[t].log :
      LET e == calls[t].log[i] IN
      /\ e.kind = "target" /\ e.url = "/files/upload" /\ e.file # NULL
      /\ e.bearer = "tA" /\ e.contentType = "<absent>"

--------------------------------------------------------------------------
(* C20 *)

\* The step adds to the call of t a round trip on which the transport raised.
TransportRaises(t) ==
  /\ Len(calls'[t].log) = Len(calls[t].log) + 1
  /\ ~Answered(calls'[t].log[Len(calls'[t].log)])

C20_Step ==
  \A t \in Threads :
    /\ TransportRaises(t) =>
         /\ calls'[t].pc = "done" /\ calls'[t].exc = "TransportError"
         /\ access_token' = access_token
    /\ (Len(calls[t].log) > 0 /\ ~Answered(Final(calls[t]))) =>
         (calls'[t].log = calls[t].log \/ calls'[t].pc = "idle")

\* C20: when the transport raises on a round trip of a call (the entry
\* authentication, the first target request, the re-authentication or the
\* retried request), the call raises that failure, makes no further round
\* trip, and the stored token keeps the value it had before the round trip.
C20_TransportFailurePropagates == [][C20_Step]_vars

\* A call entered with a token was answered 401 and the transport raised on
\* its re-authentication: it has raised and the token is still the one held.
C20_Witness ==
  \E t \in Threads :
    LET c == calls[t] IN
    /\ InPipeline(c) /\ c.pc = "done" /\ c.exc = "TransportError"
    /\ Len(c.log) = 2 /\ c.log[1].status = 401
    /\ Final(c).kind = "auth" /\ ~Answered(Final(c))
    /\ access_token = c.entryToken /\ c.entryToken = "tA"

--------------------------------------------------------------------------
(* C21 *)

\* The step belongs to an auth() call of t: it enters the call or is its
\* /auth round trip.
AuthCallStep(t) ==
  /\ calls'[t] # calls[t]
  /\ calls'[t].op = "auth" /\ calls'[t].pc \in {"auth0", "done"}

C21_FrameStep ==
  \A t \in Threads :
    AuthCallStep(t) =>
      login' = login /\ security_key' = security_key /\ proxy' = proxy

\* C21 (as claimed): an auth() call changes no client state other than the
\* stored token: login, secret key and proxy are after the call what they
\* were before it.
C21_AuthChangesOnlyToken == [][C21_FrameStep]_vars

\* The credential stored after auth() was given the argument arg.
StoredAfter(arg, before) == IF arg # "None" /\ arg # "" THEN arg ELSE before

C21_AmendedStep ==
  \A t \in Threads :
    AuthCallStep(t) =>
      /\ proxy' = proxy
      /\ IF calls[t].pc = "idle"
         THEN /\ login' = StoredAfter(calls'[t].loginArg, login)
              /\ security_key' = StoredAfter(calls'[t].keyArg, security_key)
              /\ access_token' = access_token
         ELSE login' = login /\ security_key' = security_key

\* C21 (amended): an auth() call never changes the proxy, replaces the
\* stored login or secret key only by a non-empty argument given for it and
\* keeps it otherwise, and changes nothing else but the stored token, which
\* only its /auth round trip assigns.
C21_AuthChangesTokenAndGivenCredentials == [][C21_AmendedStep]_vars

\* auth("u2") has returned: the stored login is now u2, the key is the one
\* stored before.
C21_Witness ==
  \E t \in Threads :
    LET c == calls[t] IN
    /\ c.op = "auth" /\ c.pc = "done" /\ c.exc = NULL
    /\ c.loginArg = "u2" /\ c.keyArg = NULL
    /\ login = "u2" /\ security_key = "k1"

--------------------------------------------------------------------------
(* C22 *)

\* One caller, on a client constructed with a login and without proxy.
InitFair == Init /\ login = "u1" /\ proxy = NULL

NextFair ==
  \/ AuthCall("t1") \/ Begin("t1") \/ Auth("t1") \/ Chk("t1") \/ Req("t1")
  \/ Reset("t1")

\* A call that has been entered runs on: every blocking step of the pipeline
\* (an /auth round trip, a token check, a target round trip) is eventually
\* taken.  Entering a call and taking its result are up to the caller.
FairSpec ==
  InitFair /\ [][NextFair]_vars /\ WF_vars(Auth("t1") \/ Chk("t1") \/ Req("t1"))

\* The re-authentications of the call: the /auth round trips made after a
\* target request.
ReauthIdx(c) ==
  {i \in AuthIdx(c) : \E j \in TargetIdx(c) : j < i}

\* C22: every call terminates, whatever the server answers (401 to every
\* target request included): it returns or raises after at most one
\* re-authentication and at most two dispatches of the target request.
C22_EveryCallTerminates ==
  /\ [](\A t \in Threads :
          /\ Cardinality(TargetIdx(calls[t])) <= 2
          /\ Cardinality(ReauthIdx(calls[t])) <= 1)
  /\ \A t \in Threads : (calls[t].pc # "idle") ~> (calls[t].pc = "done")

\* A call whose two dispatches were both answered 401 has returned after one
\* re-authentication.
C22_Witness ==
  \E t \in Threads :
    LET c == calls[t] IN
    /\ InPipeline(c) /\ c.pc = "done"
    /\ Cardinality(TargetIdx(c)) = 2 /\ Cardinality(ReauthIdx(c)) = 1
    /\ \A i \in TargetIdx(c) : c.log[i].status = 401

--------------------------------------------------------------------------
(* C23 *)

\* Two callers share the client without synchronisation: calls of get_forms
\* are entered at any time and their steps interleave freely.
ConcOps == {"get_forms"}
ConcAuthReplies ==
  {[status |-> 200, text |-> "tokA", disposition |-> NULL],
   [status |-> 200, text |-> "tokB", disposition |-> NULL],
   [status |-> 400, text |-> "err", disposition |-> NULL]}
ConcTargetReplies ==
  {[status |-> 200, text |-> "ok", disposition |-> NULL],
   [status |-> 401, text |-> "err", disposition |-> NULL]}

InitConc == Init /\ login = "u1" /\ proxy = NULL

NextConc ==
  \E t \in Threads :
    \/ Enter(t, ConcOps)
    \/ AuthWith(t, ConcAuthReplies)
    \/ Chk(t)
    \/ ReqWith(t, ConcTargetReplies)
    \/ Reset(t)

SpecConc == InitConc /\ [][NextConc]_vars

\* The step dispatches a target request of t's call.
Dispatches(t) ==
  /\ Len(calls'[t].log) = Len(calls[t].log) + 1
  /\ calls'[t].log[Len(calls'[t].log)].kind = "target"

C23_Step ==
  \A t \in Threads :
    calls'[t] # calls[t] =>
      /\ \A u \in Threads \ {t} : calls'[u] = calls[u]
      /\ login' = login /\ security_key' = security_key /\ proxy' = proxy
      /\ Dispatches(t) =>
           /\ calls[t].checked # "None" /\ calls[t].checked # ""
           /\ calls'[t].log[Len(calls'[t].log)].bearer = access_token
           /\ access_token' = access_token

\* C23: when two calls interleave on one client, a step of one call changes
\* nothing of the other call and nothing of the client but the stored token;
\* every dispatch follows a token check that the call passed, yet builds its
\* Authorization header from the token stored at the moment of dispatch, so
\* that a token cleared in between by the other call is sent as it is.
C23_TokenIsTheOnlySharedState == [][C23_Step]_vars

\* One call passed its token check and then dispatched its request with a
\* null token, the other call having been answered 401 and failed its
\* re-authentication.
C23_Witness ==
  \E t \in Threads : \E u \in Threads \ {t} :
    /\ \E i \in DOMAIN calls[t].log :
         /\ calls[t].log[i].kind = "target" /\ calls[t].log[i].bearer = NULL
    /\ Truthy(calls[t].entryToken) /\ Len(calls[t].log) = 1
    /\ Len(calls[u].log) = 2
    /\ calls[u].log[1].kind = "target" /\ calls[u].log[1].status = 401
    /\ AuthRejected(calls[u].log[2])

--------------------------------------------------------------------------
(* C24 *)

\* C24: the request retried after a successful re-authentication has the URL,
\* method, body, file path and raw-file flag of the call's first dispatch
\* (and its other headers); the two differ in nothing but the token of the
\* Authorization header.
C24_RetryRepeatsTheRequest ==
  \A t \in Threads :
    LET c == calls[t] IN
    \A i, j \in TargetIdx(c) :
      /\ c.log[i].url = c.log[j].url
      /\ c.log[i].method = c.log[j].method
      /\ c.log[i].body = c.log[j].body
      /\ c.log[i].file = c.log[j].file
      /\ c.log[i].stream = c.log[j].stream
      /\ c.log[i].userAgent = c.log[j].userAgent
      /\ c.log[i].contentType = c.log[j].contentType

\* A create_task call was answered 401, re-authenticated and sent its POST
\* again with the same body and the re-issued token.
C24_Witness ==
  \E t \in Threads :
    LET c == calls[t] IN
    /\ c.op = "create_task" /\ c.pc = "done" /\ Len(c.log) = 3
    /\ c.log[1].kind = "target" /\ c.log[1].status = 401
    /\ AuthSucceeds(c.log[2])
    /\ c.log[3].kind = "target" /\ c.log[3].method = "POST"
    /\ c.log[3].body # NULL /\ c.log[3].body = c.log[1].body
    /\ c.log[1].bearer = "tA" /\ c.log[3].bearer = "tB"

--------------------------------------------------------------------------
(* C25 *)

\* C25 (as claimed): get_form returns the hard-coded form without calling
\* the network: its call makes no round trip, leaves the stored token as it
\* was at entry and, given a valid id, returns the same form whatever the
\* server would answer.
C25_GetFormMakesNoRoundTrip ==
  \A t \in Threads :
    LET c == calls[t] IN
    c.op = "get_form" =>
      /\ Len(c.log) = 0
      /\ access_token = c.entryToken
      /\ (c.pc = "done" /\ c.fault = NULL) =>
           (c.exc = NULL /\ c.out = [kind |-> "entity", cls |-> "Form"])

\* C25 (amended): get_form, given a valid id, runs the request pipeline as
\* any GET operation does (at least one round trip, every target request a
\* GET of /forms/{id}); whenever the pipeline returns a value, the answer of
\* the server or an authentication failure alike, get_form discards it and
\* returns the hard-coded form; it raises only what the pipeline raises.
C25_GetFormDiscardsTheAnswer ==
  \A t \in Threads :
    LET c == calls[t] IN
    (c.op = "get_form" /\ c.pc = "done" /\ c.fault = NULL) =>
      /\ Len(c.log) >= 1
      /\ \A i \in TargetIdx(c) :
           c.log[i].url = "/forms/{id}" /\ c.log[i].method = "GET"
      /\ IF c.pipe.kind # "none"
         THEN c.exc = NULL /\ c.out = [kind |-> "entity", cls |-> "Form"]
         ELSE c.exc \in {"TransportError", "ValueError", "KeyError"}

\* A get_form call entered without a token authenticated, was answered 403
\* with an error body, and has returned the form; the token has changed.
C25_Witness ==
  \E t \in Threads :
    LET c == calls[t] IN
    /\ c.op = "get_form" /\ c.pc = "done" /\ Len(c.log) = 2
    /\ c.entryToken = NULL /\ AuthSucceeds(c.log[1]) /\ access_token # NULL
    /\ c.log[2].kind = "target" /\ c.log[2].status = 403
    /\ c.log[2].text = "err"
    /\ c.out = [kind |-> "entity", cls |-> "Form"]

--------------------------------------------------------------------------
(* C26 *)

C26_Step ==
  \A t \in Threads :
    Dispatches(t) =>
      LET e == calls'[t].log[Len(calls'[t].log)] IN
      /\ e.bearer = access_token
      /\ e.bearer \notin {"None", "", "<absent>"}
      /\ IF Len(calls[t].log) = 0
         THEN e.bearer = calls[t].entryToken
         ELSE /\ AuthSucceeds(Final(calls[t]))
              /\ e.bearer = Json(Final(calls[t]).text)["access_token"]

--------------------------------------------------------------------------
(* C27 *)

\* auth() has returned its AuthResponse to the caller of t.
AuthReturned(c) == c.op = "auth" /\ c.pc = "done" /\ c.exc = NULL

\* C27 (as claimed): once auth() has returned, the success flag of its result
\* is true exactly when the stored token is non-null, whatever the status
\* and the body of the /auth reply.
C27_SuccessIffTokenStored ==
  \A t \in Threads :
    LET c == calls[t] IN
    AuthReturned(c) => (c.out.success <=> access_token # NULL)

\* The same statement for the replies of status 200 only.
C27_OnStatus200 ==
  \A t \in Threads :
    LET c == calls[t] IN
    (AuthReturned(c) /\ Final(c).status = 200) =>
      (c.out.success <=> access_token # NULL)

--------------------------------------------------------------------------
(* C28 *)

\* Two consecutive calls on one client: the first caller's get_forms call
\* runs to its end, then the second caller's; the first call's round trips
\* stay on record while the second runs.
TwoAuthReplies ==
  {[status |-> 200, text |-> "tokA", disposition |-> NULL],
   [status |-> 200, text |-> "tokB", disposition |-> NULL],
   [status |-> 200, text |-> "err", disposition |-> NULL],
   [status |-> 400, text |-> "err", disposition |-> NULL],
   TransportFailure}
TwoTargetReplies ==
  {[status |-> 200, text |-> "ok", disposition |-> NULL],
   [status |-> 401, text |-> "err", disposition |-> NULL],
   [status |-> 500, text |-> "err", disposition |-> NULL]}

InitTwo == Init /\ login = "u1" /\ proxy = NULL

\* The first call is entered on the fresh client, the next one when the
\* first has returned or raised.
EnterInTurn(t) ==
  /\ IF t = "t1" THEN calls["t2"].pc = "idle" ELSE calls["t1"].pc = "done"
  /\ Enter(t, {"get_forms"})

NextTwo ==
  \E t \in Threads :
    \/ EnterInTurn(t)
    \/ AuthWith(t, TwoAuthReplies)
    \/ Chk(t)
    \/ ReqWith(t, TwoTargetReplies)

SpecTwo == InitTwo /\ [][NextTwo]_vars

\* The call ended with a failed authentication: its last round trip is an
\* /auth answered with a failure.
EndedWithFailedAuth(c) ==
  c.pc = "done" /\ Len(c.log) > 0 /\ AuthFails(Final(c))

\* The re-authentication of the call succeeded and the call has ended.
EndedAfterReauth(c) ==
  c.pc = "done" /\ \E i \in ReauthIdx(c) : AuthSucceeds(c.log[i])

\* The token the successful re-authentication of the call issued.
Reissued(c) ==
  Json(c.log[CHOOSE i \in ReauthIdx(c) : AuthSucceeds(c.log[i])].text)["access_token"]

\* What the claim says of the call next after a call that ended as prev did.
FollowsAsClaimed(prev, next, failed) ==
  next.pc # "idle" =>
    /\ failed =>
         /\ next.entryToken = NULL
         /\ Len(next.log) > 0 => next.log[1].kind = "auth"
    /\ EndedAfterReauth(prev) =>
         /\ next.entryToken = Reissued(prev)
         /\ Len(next.log) > 0 =>
              (next.log[1].kind = "target" /\ next.log[1].bearer = Reissued(prev))

\* C28 (as claimed): after a call that ended with a failed authentication
\* the stored token is null and the next call sends /auth before any target
\* request; after a call whose re-authentication succeeded the next call
\* sends no /auth at entry and dispatches with the re-issued token.
C28_NextCallFollowsToken ==
  FollowsAsClaimed(calls["t1"], calls["t2"], EndedWithFailedAuth(calls["t1"]))

\* The same statement when the failed authentication is a non-2xx reply.
C28_AfterRejectedAuth ==
  FollowsAsClaimed(calls["t1"], calls["t2"],
                   calls["t1"].pc = "done" /\ Len(calls["t1"].log) > 0
                     /\ AuthRejected(Final(calls["t1"])))

--------------------------------------------------------------------------
(* C29 *)

\* The step sends an /auth request of t's call.
Authenticates(t) ==
  /\ Len(calls'[t].log) = Len(calls[t].log) + 1
  /\ calls'[t].log[Len(calls'[t].log)].kind = "auth"

C29_Step ==
  \A t \in Threads :
    calls'[t] # calls[t] =>
      /\ IF calls[t].pc = "idle" /\ calls'[t].op = "auth"
         THEN /\ calls'[t].loginArg \in {"None", ""} => login' = login
              /\ calls'[t].keyArg \in {"None", ""} => security_key' = security_key
              /\ calls'[t].loginArg \notin {"None", ""} => login' = calls'[t].loginArg
              /\ calls'[t].keyArg \notin {"None", ""} =>
                   security_key' = calls'[t].keyArg
         ELSE login' = login /\ security_key' = security_key
      /\ Authenticates(t) =>
           /\ calls'[t].log[Len(calls'[t].log)].login = login
           /\ calls'[t].log[Len(calls'[t].log)].security_key = security_key

\* C29: no step of the request pipeline changes the stored login or secret
\* key; auth() replaces one only by a non-empty argument and keeps it when
\* the argument is omitted or empty; every /auth request, at entry or after
\* a 401, therefore sends the credentials supplied last.
C29_CredentialsAreThoseSuppliedLast == [][C29_Step]_vars

\* After auth("u2", "k2"), a call answered 401 has re-authenticated with u2
\* and k2.
C29_Witness ==
  \E t \in Threads :
    LET c == calls[t] IN
    /\ InPipeline(c) /\ Len(c.log) >= 2
    /\ c.log[1].kind = "target" /\ c.log[1].status = 401
    /\ c.log[2].kind = "auth"
    /\ c.log[2].login = "u2" /\ c.log[2].security_key = "k2"
    /\ login = "u2" /\ security_key = "k2"

--------------------------------------------------------------------------
(* C30 *)

\* download_file has returned the error code authorization_error.
ReturnedAuthorizationError(c) ==
  /\ c.op = "download_file" /\ c.pc = "done" /\ c.exc = NULL
  /\ c.out.kind = "object" /\ c.out.error_code = "authorization_error"

\* C30: download_file returns authorization_error only when the first
\* download request was answered 401, the re-authentication succeeded and
\* the retried download was answered 401 again; one 401 alone never gives it.
C30_AuthorizationErrorAfterTwo401 ==
  \A t \in Threads :
    LET c == calls[t]
        n == Len(c.log)
    IN ReturnedAuthorizationError(c) =>
         /\ n >= 3 /\ Cardinality(TargetIdx(c)) = 2
         /\ c.log[n - 2].kind = "target" /\ c.log[n - 2].status = 401
         /\ AuthSucceeds(c.log[n - 1])
         /\ c.log[n].kind = "target" /\ c.log[n].status = 401

\* A download entered with a token was answered 401 twice around a
\* successful re-authentication and has returned authorization_error.
C30_Witness ==
  \E t \in Threads :
    LET c == calls[t] IN
    /\ ReturnedAuthorizationError(c) /\ Len(c.log) = 3
    /\ c.log[1].status = 401 /\ AuthSucceeds(c.log[2]) /\ c.log[3].status = 401

====
